---- MODULE Spec2Model ----
(***************************************************************************)
(* Model of the Dashboard component (src/src/pages/Dashboard.tsx): the     *)
(* adaptive quiz, the learner profile (learning style and confidence) and  *)
(* the two asynchronous generation requests (study aid, quiz set).         *)
(*                                                                         *)
(* A step of the model is one React event: a click on a rendered control   *)
(* (the handler runs only if the control is rendered and not disabled), or *)
(* the settling of an awaited promise inside an async handler.  React      *)
(* re-renders between two events, so every handler reads the state left by *)
(* the previous one.                                                       *)
(***************************************************************************)
EXTENDS Integers, Sequences, FiniteSets

(* ---------------------------------------------------------------- bounds *)

\* uploadedFiles grows by one on every successful study aid; the model stops
\* offering new files once this many study aids have been produced.
MaxUploads == 2

\* Number of distinct study-aid texts the generation service may return.
MaxAttributions == 3
NumTexts == 1

(* ------------------------------------------------------------- constants *)

\* The values standing for JavaScript null.
NoSelection == -1
NoText == 0
NoQuiz == << >>
NoStoredStyle == "none"

\* useState(85)
InitialConfidence == 85
\* Math.min(100, prev + 1)
MaxConfidence == 100
ConfidenceBump == 1
\* Math.max(0, prev - 25)
MinConfidence == 0
SwitchPenalty == 25
\* incorrectCount >= 3
SwitchThreshold == 3
\* "generate five unique multiple-choice questions (4 options each)"
QuizSize == 5
NumOptions == 4

\* const learningStylesArray = ['visual', 'practical', 'conceptual'];
learningStylesArray == << "visual", "practical", "conceptual" >>

Styles == { learningStylesArray[i] : i \in 1..Len(learningStylesArray) }

\* styles.indexOf(current), 0-based, -1 when absent
IndexOf(current, styles) ==
    IF \E i \in 1..Len(styles) : styles[i] = current
    THEN (CHOOSE i \in 1..Len(styles) :
              /\ styles[i] = current
              /\ \A j \in 1..(i - 1) : styles[j] # current) - 1
    ELSE -1

getNextStyleSame(current, styles) == current

getNextStyle(current, styles) ==
    LET currentIndex == IndexOf(current, styles)
        nextIndex == (currentIndex + 1) % Len(styles)
    IN  styles[nextIndex + 1]

Min(a, b) == IF a < b THEN a ELSE b
Max(a, b) == IF a > b THEN a ELSE b

\* setProfileConfidence(prev => Math.min(100, prev + 1))
bumpConfidence(prev) == Min(MaxConfidence, prev + ConfidenceBump)

penalizeConfidenceUnclamped(prev) == prev - SwitchPenalty

\* setProfileConfidence(prev => Math.max(0, prev - 25))
penalizeConfidence(prev) == Max(MinConfidence, prev - SwitchPenalty)

(* ------------------------------------------------- the generation service *)

\* A question as the quiz uses it: the index of the right option, the
\* number of options rendered as answer buttons, and one explanation per
\* style (a text is told apart by its style and its question).
Question(c) ==
    [correctAnswerIndex |-> c,
     options |-> NumOptions,
     explanation_visual |-> << "visual", c >>,
     explanation_practical |-> << "practical", c >>,
     explanation_conceptual |-> << "conceptual", c >>]

\* A set of n questions; question k (1-based) has right option (k - 1) % 4.
QuizSet(n) == [k \in 1..n |-> Question((k - 1) % NumOptions)]

\* The quiz sets a successful, valid response of the service may carry: the
\* five questions that were asked for, or a single one (generateQuizWithGemini
\* accepts every non-empty array).
QuizResponses == { QuizSet(QuizSize), QuizSet(1) }

Texts == 1..NumTexts

\* fetchApiWithBackoff(apiUrl, payload, maxRetries = 3)
maxRetries == 3

\* The empty string as the text of a study aid response.
EmptyString == -1

\* No notification yet.
NoToast == [title |-> "none", description |-> "none"]

\* No response body received, no error thrown.
NoResult == [none |-> TRUE]
NoError == "none"

\* A fetchApiWithBackoff call that is not running: where it stands, its
\* attempt counter, the requests issued and timers waited in order, the
\* per-attempt errors it logged, the body it got and the error its caller
\* (generateContentWithGemini, generateQuizWithGemini) ended with.
IdleCall ==
    [pc |-> "idle", attempt |-> 0, log |-> << >>, errors |-> << >>,
     result |-> NoResult, thrown |-> NoError]

(* ------------------------------------------------------------------ state *)

\* const questions = [ ... ]: questions.length
questionsLength == 5

\* answers[q] === undefined
NoAnswer == "undefined"

VARIABLES
    storedStyle,           \* localStorage "learningStyle"
    currentLearningStyle,
    profileConfidence,
    uploadedFiles,         \* uploadedFiles.length
    selectedFiles,         \* selectedFiles.length
    isLoading,
    generatedOutput,       \* the text of the study aid held, or NoText
    quizQuestions,
    currentQuestionIndex,
    quizStatus,
    userSelection,
    incorrectCount,
    isGeneratingQuiz,
    quizScore,
    studyPc,               \* where handleCreateStudyAid is suspended
    quizContext,           \* generatedOutput.text passed to the pending
                           \* generateQuizWithGemini call, NoText if none
    toast,                 \* the notification shown last
    studyCall,             \* fetchApiWithBackoff under generateContentWithGemini
    quizCall,              \* fetchApiWithBackoff under generateQuizWithGemini
    priorOutput,           \* generatedOutput as handleCreateStudyAid found it
    effects,               \* what the quiz handler that ran last wrote to the
                           \* store and notified, in order
    outputSources,         \* generatedOutput.sources, empty if none is held
    passSwitches,          \* style switches since the quiz set was loaded or
                           \* retaken
    route,                 \* the page shown: "/onboarding" or "/dashboard"
    currentQuestion,       \* Onboarding: the survey question shown
    answers                \* Onboarding: the answer recorded per question

profileVars == << storedStyle, currentLearningStyle, profileConfidence >>
sessionVars == << quizQuestions, currentQuestionIndex, quizStatus,
                  userSelection, incorrectCount, quizScore >>
studyVars   == << uploadedFiles, selectedFiles, isLoading, generatedOutput,
                  studyPc >>
quizGenVars == << isGeneratingQuiz, quizContext >>
surveyVars  == << route, currentQuestion, answers >>
traceVars   == << toast, studyCall, quizCall, priorOutput, effects,
                  outputSources, passSwitches >>
detailVars  == << traceVars, surveyVars >>

vars == << storedStyle, currentLearningStyle, profileConfidence,
           uploadedFiles, selectedFiles, isLoading, generatedOutput,
           quizQuestions, currentQuestionIndex, quizStatus, userSelection,
           incorrectCount, isGeneratingQuiz, quizScore, studyPc,
           quizContext, toast, studyCall, quizCall, priorOutput, effects,
           outputSources, passSwitches, route, currentQuestion, answers >>

\* const currentQuiz = quizQuestions ? quizQuestions[currentQuestionIndex] : null
HasCurrentQuiz ==
    /\ quizQuestions # NoQuiz
    /\ currentQuestionIndex + 1 \in 1..Len(quizQuestions)

currentQuiz == quizQuestions[currentQuestionIndex + 1]

\* Onboarding: useState initial values, no question answered.
NoAnswers == [q \in 0..(questionsLength - 1) |-> NoAnswer]

\* useState initial values on the page shown first; the style comes from the
\* store, visual if absent.
InitialState(path) ==
    /\ storedStyle \in Styles \cup {NoStoredStyle}
    /\ currentLearningStyle =
           (IF storedStyle = NoStoredStyle THEN "visual" ELSE storedStyle)
    /\ profileConfidence = InitialConfidence
    /\ uploadedFiles = 0
    /\ selectedFiles = 0
    /\ isLoading = FALSE
    /\ generatedOutput = NoText
    /\ quizQuestions = NoQuiz
    /\ currentQuestionIndex = 0
    /\ quizStatus = "unanswered"
    /\ userSelection = NoSelection
    /\ incorrectCount = 0
    /\ isGeneratingQuiz = FALSE
    /\ quizScore = 0
    /\ studyPc = "idle"
    /\ quizContext = NoText
    /\ toast = NoToast
    /\ studyCall = IdleCall
    /\ quizCall = IdleCall
    /\ priorOutput = NoText
    /\ effects = << >>
    /\ outputSources = << >>
    /\ passSwitches = 0
    /\ route = path
    /\ currentQuestion = 0
    /\ answers = NoAnswers

\* The Dashboard page is opened.
Init == InitialState("/dashboard")

(* --------------------------------------------------------------- study aid *)

\* The user picks a file in the file input.
handleFileSelect ==
    /\ uploadedFiles < MaxUploads
    /\ selectedFiles' = 1
    /\ UNCHANGED << detailVars, profileVars, sessionVars, quizGenVars,
                    uploadedFiles, isLoading, generatedOutput, studyPc >>

\* <Button onClick={handleCreateStudyAid}
\*         disabled={selectedFiles.length === 0 || isLoading}>
CreateButtonEnabled == ~(selectedFiles = 0 \/ isLoading)

startStudyAidKeepOutput ==
    /\ isLoading' = TRUE
    /\ quizQuestions' = NoQuiz
    /\ quizScore' = 0
    /\ currentQuestionIndex' = 0
    /\ quizStatus' = "unanswered"
    /\ incorrectCount' = 0
    /\ studyPc' = "reading"
    /\ UNCHANGED << profileVars, quizGenVars, uploadedFiles, selectedFiles,
                    userSelection, generatedOutput >>

\* The state updates of handleCreateStudyAid before its first await.
startStudyAid ==
    /\ isLoading' = TRUE
    /\ generatedOutput' = NoText
    /\ quizQuestions' = NoQuiz
    /\ quizScore' = 0
    /\ currentQuestionIndex' = 0
    /\ quizStatus' = "unanswered"
    /\ incorrectCount' = 0
    /\ studyPc' = "reading"
    /\ UNCHANGED << profileVars, quizGenVars, uploadedFiles, selectedFiles,
                    userSelection >>

\* handleCreateStudyAid up to its first await.
handleCreateStudyAid ==
    IF CreateButtonEnabled /\ selectedFiles # 0
    THEN startStudyAid /\ UNCHANGED detailVars
    ELSE UNCHANGED vars

\* catch + finally of handleCreateStudyAid
StudyAidFailed ==
    /\ isLoading' = FALSE
    /\ studyPc' = "idle"
    /\ UNCHANGED << detailVars, profileVars, sessionVars, quizGenVars,
                    uploadedFiles, selectedFiles, generatedOutput >>

\* await readFileAsText(file) settles.
ReadFileResolved ==
    /\ studyPc = "reading"
    /\ studyPc' = "generating"
    /\ UNCHANGED << detailVars, profileVars, sessionVars, quizGenVars,
                    uploadedFiles, selectedFiles, isLoading, generatedOutput >>

ReadFileRejected ==
    /\ studyPc = "reading"
    /\ StudyAidFailed

\* await generateContentWithGemini(...) settles with a text.
StudyAidResolved ==
    /\ studyPc = "generating"
    /\ \E text \in Texts : generatedOutput' = text
    /\ uploadedFiles' = uploadedFiles + 1
    /\ selectedFiles' = 0
    /\ isLoading' = FALSE
    /\ studyPc' = "idle"
    /\ UNCHANGED << detailVars, profileVars, sessionVars, quizGenVars >>

StudyAidRejected ==
    /\ studyPc = "generating"
    /\ StudyAidFailed

(* ----------------------------------------------------------- quiz request *)

\* The "Start Personalized Quiz" button sits inside {generatedOutput && ...},
\* disabled={isGeneratingQuiz || quizQuestions !== null}.
StartQuizButtonEnabled ==
    /\ generatedOutput # NoText
    /\ ~(isGeneratingQuiz \/ quizQuestions # NoQuiz)

\* The quiz card shows the completed screen when
\* !(quizStatus !== 'completed' && currentQuiz).
CompletedScreenShown ==
    /\ quizQuestions # NoQuiz
    /\ ~(quizStatus # "completed" /\ HasCurrentQuiz)

startQuizSetKeepStreak ==
    /\ isGeneratingQuiz' = TRUE
    /\ quizQuestions' = NoQuiz
    /\ currentQuestionIndex' = 0
    /\ quizStatus' = "unanswered"
    /\ quizScore' = 0
    /\ quizContext' = generatedOutput
    /\ UNCHANGED << profileVars, studyVars, userSelection, incorrectCount >>

\* The state updates of fetchNewQuizQuestionSet before its await.
startQuizSet ==
    /\ isGeneratingQuiz' = TRUE
    /\ quizQuestions' = NoQuiz
    /\ currentQuestionIndex' = 0
    /\ quizStatus' = "unanswered"
    /\ incorrectCount' = 0
    /\ quizScore' = 0
    /\ quizContext' = generatedOutput
    /\ UNCHANGED << profileVars, studyVars, userSelection >>

\* fetchNewQuizQuestionSet up to its await.
fetchNewQuizQuestionSet ==
    IF generatedOutput = NoText
    THEN UNCHANGED vars
    ELSE startQuizSet /\ UNCHANGED detailVars

ClickStartQuiz ==
    IF StartQuizButtonEnabled THEN fetchNewQuizQuestionSet ELSE UNCHANGED vars

ClickGenerateNewQuiz ==
    IF CompletedScreenShown THEN fetchNewQuizQuestionSet ELSE UNCHANGED vars

\* await generateQuizWithGemini(...) settles with a quiz set.
QuizResolved ==
    /\ quizContext # NoText
    /\ \E newQuizSet \in QuizResponses : quizQuestions' = newQuizSet
    /\ isGeneratingQuiz' = FALSE
    /\ quizContext' = NoText
    /\ UNCHANGED << detailVars, profileVars, studyVars, currentQuestionIndex,
                    quizStatus, userSelection, incorrectCount, quizScore >>

QuizRejected ==
    /\ quizContext # NoText
    /\ isGeneratingQuiz' = FALSE
    /\ quizContext' = NoText
    /\ UNCHANGED << detailVars, profileVars, studyVars, sessionVars >>

(* ------------------------------------------------------------ quiz engine *)

\* The question view is rendered when quizQuestions &&
\* quizStatus !== 'completed' && currentQuiz.
QuestionShown ==
    /\ quizQuestions # NoQuiz
    /\ quizStatus # "completed"
    /\ HasCurrentQuiz

\* learningStyleInfo: the title and the explanation key of each style.
learningStyleInfo ==
    [visual |-> [title |-> "Visual Learner",
                 explanationKey |-> "explanation_visual"],
     practical |-> [title |-> "Practical Learner",
                    explanationKey |-> "explanation_practical"],
     conceptual |-> [title |-> "Conceptual Learner",
                     explanationKey |-> "explanation_conceptual"]]

\* if (!currentQuiz || quizStatus !== 'incorrect') return null;
ExplanationDefined == ~(~HasCurrentQuiz \/ quizStatus # "incorrect")

PreviewDueLate == incorrectCount > SwitchThreshold

\* if (incorrectCount >= 3) styleToExplain = getNextStyle(...)
PreviewDue == incorrectCount >= SwitchThreshold

getExplanationTextCurrentStyle ==
    LET explanationKey ==
            learningStyleInfo[currentLearningStyle].explanationKey
    IN  [explanation |-> currentQuiz[explanationKey],
         explanationStyle |-> learningStyleInfo[currentLearningStyle].title,
         newStyle |-> currentLearningStyle]

\* The value of the getExplanationText memo when it is not null.
getExplanationText ==
    LET styleToExplain ==
            IF PreviewDue
            THEN getNextStyle(currentLearningStyle, learningStylesArray)
            ELSE currentLearningStyle
        explanationKey == learningStyleInfo[styleToExplain].explanationKey
    IN  [explanation |-> currentQuiz[explanationKey],
         explanationStyle |-> learningStyleInfo[styleToExplain].title,
         newStyle |-> styleToExplain]

\* An option button: disabled={quizStatus !== 'unanswered'}.
OptionButtonEnabled == QuestionShown /\ ~(quizStatus # "unanswered")

\* if (quizStatus !== 'unanswered' || isGeneratingQuiz || !currentQuiz) return;
AnswerAcceptedAlways == QuestionShown /\ ~isGeneratingQuiz

AnswerAccepted ==
    /\ OptionButtonEnabled
    /\ ~(quizStatus # "unanswered" \/ isGeneratingQuiz \/ ~HasCurrentQuiz)

\* The branch of handleAnswerSubmit for the right option.
markCorrectKeepStreak ==
    /\ quizStatus' = "correct"
    /\ quizScore' = quizScore + 1
    /\ profileConfidence' = bumpConfidence(profileConfidence)
    /\ UNCHANGED incorrectCount

markCorrectDoubleScore ==
    /\ quizStatus' = "correct"
    /\ incorrectCount' = 0
    /\ quizScore' = quizScore + 2
    /\ profileConfidence' = bumpConfidence(profileConfidence)

markCorrect ==
    /\ quizStatus' = "correct"
    /\ incorrectCount' = 0
    /\ quizScore' = quizScore + 1
    /\ profileConfidence' = bumpConfidence(profileConfidence)

markIncorrectPenalized ==
    /\ quizStatus' = "incorrect"
    /\ incorrectCount' = incorrectCount + 1
    /\ profileConfidence' = Max(MinConfidence, profileConfidence - 1)
    /\ UNCHANGED quizScore

\* The branch of handleAnswerSubmit for any other option.
markIncorrect ==
    /\ quizStatus' = "incorrect"
    /\ incorrectCount' = incorrectCount + 1
    /\ UNCHANGED << quizScore, profileConfidence >>

handleAnswerSubmit(selectedIndex) ==
    IF AnswerAccepted
    THEN /\ userSelection' = selectedIndex
         /\ IF selectedIndex = currentQuiz.correctAnswerIndex
            THEN markCorrect
            ELSE markIncorrect
         /\ UNCHANGED << detailVars, storedStyle, currentLearningStyle,
                         studyVars, quizGenVars, quizQuestions, currentQuestionIndex >>
    ELSE UNCHANGED vars

\* A click on one of the rendered options of the current question.
ClickOption ==
    \E selectedIndex \in 0..(NumOptions - 1) : handleAnswerSubmit(selectedIndex)

NextButtonAlways == quizQuestions # NoQuiz /\ HasCurrentQuiz

\* The Next button sits inside {quizStatus !== 'unanswered' && ...} of the
\* question view, disabled={isGeneratingQuiz}.
NextButtonEnabled ==
    /\ QuestionShown
    /\ quizStatus # "unanswered"
    /\ ~isGeneratingQuiz

AtLastQuestionOffByOne == currentQuestionIndex >= Len(quizQuestions)

AtLastQuestionNever == FALSE

\* if (currentQuestionIndex >= quizQuestions.length - 1)
AtLastQuestion == currentQuestionIndex >= Len(quizQuestions) - 1

SwitchDueEarly == quizStatus = "incorrect" /\ incorrectCount >= 2

SwitchDueOnAnyMiss == quizStatus = "incorrect" /\ incorrectCount >= 1

\* if (quizStatus === 'incorrect' && incorrectCount >= 3)
SwitchDue == quizStatus = "incorrect" /\ incorrectCount >= SwitchThreshold

switchStyleKeepStreak ==
    LET nextStyle == getNextStyle(currentLearningStyle, learningStylesArray)
    IN  /\ storedStyle' = nextStyle
        /\ currentLearningStyle' = nextStyle
        /\ profileConfidence' = penalizeConfidence(profileConfidence)
        /\ UNCHANGED incorrectCount

switchStyleNoPenalty ==
    LET nextStyle == getNextStyle(currentLearningStyle, learningStylesArray)
    IN  /\ storedStyle' = nextStyle
        /\ currentLearningStyle' = nextStyle
        /\ incorrectCount' = 0
        /\ UNCHANGED profileConfidence

switchStyleWithBump ==
    LET nextStyle == getNextStyle(currentLearningStyle, learningStylesArray)
    IN  /\ storedStyle' = nextStyle
        /\ currentLearningStyle' = nextStyle
        /\ profileConfidence' =
               bumpConfidence(penalizeConfidence(profileConfidence))
        /\ incorrectCount' = 0

switchStyleNoSave ==
    LET nextStyle == getNextStyle(currentLearningStyle, learningStylesArray)
    IN  /\ currentLearningStyle' = nextStyle
        /\ profileConfidence' = penalizeConfidence(profileConfidence)
        /\ incorrectCount' = 0
        /\ UNCHANGED storedStyle

\* The body of that if: the style switch.
switchStyle ==
    LET nextStyle == getNextStyle(currentLearningStyle, learningStylesArray)
    IN  /\ storedStyle' = nextStyle
        /\ currentLearningStyle' = nextStyle
        /\ profileConfidence' = penalizeConfidence(profileConfidence)
        /\ incorrectCount' = 0

handleNextQuestionSwitchFirst ==
    IF NextButtonEnabled /\ ~(~HasCurrentQuiz \/ quizQuestions = NoQuiz)
    THEN /\ IF SwitchDue
            THEN switchStyle
            ELSE UNCHANGED << profileVars, incorrectCount >>
         /\ IF AtLastQuestion
            THEN /\ quizStatus' = "completed"
                 /\ UNCHANGED << currentQuestionIndex, userSelection >>
            ELSE /\ currentQuestionIndex' = currentQuestionIndex + 1
                 /\ quizStatus' = "unanswered"
                 /\ userSelection' = NoSelection
         /\ UNCHANGED << detailVars, studyVars, quizGenVars, quizQuestions,
                         quizScore >>
    ELSE UNCHANGED vars

handleNextQuestion ==
    IF NextButtonEnabled /\ ~(~HasCurrentQuiz \/ quizQuestions = NoQuiz)
    THEN IF AtLastQuestion
         THEN /\ quizStatus' = "completed"
              /\ UNCHANGED << detailVars, profileVars, studyVars, quizGenVars,
                              quizQuestions, currentQuestionIndex,
                              userSelection, incorrectCount, quizScore >>
         ELSE /\ IF SwitchDue
                 THEN switchStyle
                 ELSE UNCHANGED << profileVars, incorrectCount >>
              /\ currentQuestionIndex' = currentQuestionIndex + 1
              /\ quizStatus' = "unanswered"
              /\ userSelection' = NoSelection
              /\ UNCHANGED << detailVars, studyVars, quizGenVars,
                              quizQuestions, quizScore >>
    ELSE UNCHANGED vars

handleRetakeQuizKeepStreak ==
    IF CompletedScreenShown
    THEN /\ quizScore' = 0
         /\ currentQuestionIndex' = 0
         /\ quizStatus' = "unanswered"
         /\ userSelection' = NoSelection
         /\ UNCHANGED << detailVars, profileVars, studyVars, quizGenVars,
                         quizQuestions, incorrectCount >>
    ELSE UNCHANGED vars

handleRetakeQuizKeepScore ==
    IF CompletedScreenShown
    THEN /\ currentQuestionIndex' = 0
         /\ quizStatus' = "unanswered"
         /\ incorrectCount' = 0
         /\ userSelection' = NoSelection
         /\ UNCHANGED << detailVars, profileVars, studyVars, quizGenVars,
                         quizQuestions, quizScore >>
    ELSE UNCHANGED vars

\* "Retake Quiz" on the completed screen.
handleRetakeQuiz ==
    IF CompletedScreenShown
    THEN /\ quizScore' = 0
         /\ currentQuestionIndex' = 0
         /\ quizStatus' = "unanswered"
         /\ incorrectCount' = 0
         /\ userSelection' = NoSelection
         /\ UNCHANGED << detailVars, profileVars, studyVars, quizGenVars,
                         quizQuestions >>
    ELSE UNCHANGED vars

(* ---------------------------------------------------------- specification *)

Next ==
    \/ handleFileSelect
    \/ handleCreateStudyAid
    \/ ReadFileResolved
    \/ ReadFileRejected
    \/ StudyAidResolved
    \/ StudyAidRejected
    \/ ClickStartQuiz
    \/ ClickGenerateNewQuiz
    \/ QuizResolved
    \/ QuizRejected
    \/ ClickOption
    \/ handleNextQuestion
    \/ handleRetakeQuiz

Spec == Init /\ [][Next]_vars

TypeOK ==
    /\ storedStyle \in Styles \cup {NoStoredStyle}
    /\ currentLearningStyle \in Styles
    /\ profileConfidence \in Int
    /\ uploadedFiles \in 0..MaxUploads
    /\ selectedFiles \in 0..1
    /\ isLoading \in BOOLEAN
    /\ generatedOutput \in Texts \cup {NoText}
    /\ quizQuestions \in QuizResponses \cup {NoQuiz}
    /\ currentQuestionIndex \in Nat
    /\ quizStatus \in {"unanswered", "correct", "incorrect", "completed"}
    /\ userSelection \in (0..(NumOptions - 1)) \cup {NoSelection}
    /\ incorrectCount \in Nat
    /\ isGeneratingQuiz \in BOOLEAN
    /\ quizScore \in Nat
    /\ studyPc \in {"idle", "reading", "generating"}
    /\ quizContext \in Texts \cup {NoText}

(* ------------------------------------------- the generation client, traced *)

\* Spec leaves the notifications and the inside of fetchApiWithBackoff out
\* (detailVars keep their initial values there). SpecGen below follows the two
\* generation handlers request by request and leaves the quiz engine out.

Toast(title, description) == [title |-> title, description |-> description]

\* throw new Error("Failed to communicate with Gemini API after multiple
\* retries.")
UnavailableMessage ==
    "Failed to communicate with Gemini API after multiple retries."

\* What one attempt can fail with: fetch rejects, or the status is not 2xx.
TransportErrors ==
    { "Failed to fetch", "API call failed with status: 500" }

\* throw new Error("Invalid response structure for study aid from Gemini
\* API.")
StudyShapeMessage ==
    "Invalid response structure for study aid from Gemini API."

\* throw new Error("Could not parse valid quiz data from AI response.")
QuizShapeMessage == "Could not parse valid quiz data from AI response."

\* The errors readFileAsText rejects with.
ExtractionErrors ==
    { "Unsupported file type. Only .txt, .docx, and .pdf are supported.",
      "DOCX parser (mammoth.js) is not loaded.",
      "PDF parser (pdf.js) is not loaded.",
      "Failed to read TXT file" }

BackoffDelayLinear(attempt) == attempt * 1000

\* const delay = Math.pow(2, attempt) * 1000;
BackoffDelay(attempt) == (2 ^ attempt) * 1000

\* await fetch(apiUrl, ...) is issued.
IssueFetch(call) ==
    [call EXCEPT !.pc = "fetching",
                 !.log = Append(@, [ev |-> "fetch", ms |-> 0])]

\* fetchApiWithBackoff is called: attempt = 0, and the loop issues a request.
StartCall == IssueFetch(IdleCall)

AttemptFailedNoCap(call, error) ==
    LET attempt == call.attempt + 1
    IN  [call EXCEPT !.attempt = attempt,
                     !.errors = Append(@, error),
                     !.pc = "sleeping",
                     !.log = Append(@, [ev |-> "wait",
                                        ms |-> BackoffDelay(attempt)])]

\* The catch block of the loop: count the attempt, then wait or give up.
AttemptFailed(call, error) ==
    LET attempt == call.attempt + 1
        counted == [call EXCEPT !.attempt = attempt,
                                !.errors = Append(@, error)]
    IN  IF attempt < maxRetries
        THEN [counted EXCEPT
                 !.pc = "sleeping",
                 !.log = Append(@, [ev |-> "wait",
                                    ms |-> BackoffDelay(attempt)])]
        ELSE [counted EXCEPT !.pc = "idle", !.thrown = UnavailableMessage]

ReceivedInsideLoop(call, result, thrown) ==
    IF thrown = NoError
    THEN [call EXCEPT !.pc = "idle", !.result = result, !.thrown = thrown]
    ELSE [AttemptFailed(call, thrown) EXCEPT !.result = result]

\* return response.json(), and what the caller made of the body.
Received(call, result, thrown) ==
    [call EXCEPT !.pc = "idle", !.result = result, !.thrown = thrown]

\* A response body with one candidate holding one part.
OnePart(part) == [candidates |-> << [content |-> [parts |-> << part >>]] >>]

\* The bodies of the 2xx responses to a study aid request: JSON objects
\* without a candidate, without content, without a part, with a part that has
\* no text, with an empty text, and with a text.
StudyResults ==
    { [promptFeedback |-> "blocked"],
      [candidates |-> << >>],
      [candidates |-> << [finishReason |-> "SAFETY"] >>],
      [candidates |-> << [content |-> [parts |-> << >>]] >>],
      OnePart([inlineData |-> "blob"]),
      OnePart([text |-> EmptyString]) }
    \cup { OnePart([text |-> text]) : text \in Texts }

\* result.candidates?.[0]?.content?.parts?.[0]?.text is not undefined.
HasTextField(result) ==
    /\ "candidates" \in DOMAIN result
    /\ Len(result.candidates) > 0
    /\ "content" \in DOMAIN result.candidates[1]
    /\ "parts" \in DOMAIN result.candidates[1].content
    /\ Len(result.candidates[1].content.parts) > 0
    /\ "text" \in DOMAIN result.candidates[1].content.parts[1]

TextOf(result) == result.candidates[1].content.parts[1].text

\* undefined, as the value of a property that is not there.
Undefined == "undefined"

\* attribution.web?.uri, attribution.web?.title
WebField(attribution, field) ==
    IF "web" \in DOMAIN attribution /\ field \in DOMAIN attribution.web
    THEN attribution.web[field]
    ELSE Undefined

\* A string or undefined in a condition.
Truthy(value) == value \notin { Undefined, "" }

SourceKeptEither(source) == Truthy(source.uri) \/ Truthy(source.title)

\* .filter((source: any) => source.uri && source.title)
SourceKept(source) == Truthy(source.uri) /\ Truthy(source.title)

\* The sources generateContentWithGemini returns for a candidate.
ExtractSources(candidate) ==
    IF /\ "groundingMetadata" \in DOMAIN candidate
       /\ "groundingAttributions" \in DOMAIN candidate.groundingMetadata
    THEN LET attributions == candidate.groundingMetadata.groundingAttributions
             mapped == [i \in 1..Len(attributions) |->
                           [uri |-> WebField(attributions[i], "uri"),
                            title |-> WebField(attributions[i], "title")]]
         IN  SelectSeq(mapped, SourceKept)
    ELSE << >>

StudyTextPresentLenient(result) == HasTextField(result)

\* if (candidate && candidate.content?.parts?.[0]?.text)
StudyTextPresent(result) ==
    HasTextField(result) /\ TextOf(result) # EmptyString

\* The texts a quiz response may carry, and what JSON.parse makes of them.
ObjectJson == "{\"questions\": []}"
EmptyArrayJson == "[]"
OneQuestionJson == "[q1]"
FiveQuestionsJson == "[q1, q2, q3, q4, q5]"
ProseText == "Here are your questions:"

IsJson(text) ==
    text \in { ObjectJson, EmptyArrayJson, OneQuestionJson, FiveQuestionsJson }

JSONparse(text) ==
    CASE text = ObjectJson -> [isArray |-> FALSE, items |-> << >>]
      [] text = EmptyArrayJson -> [isArray |-> TRUE, items |-> << >>]
      [] text = OneQuestionJson -> [isArray |-> TRUE, items |-> QuizSet(1)]
      [] text = FiveQuestionsJson ->
             [isArray |-> TRUE, items |-> QuizSet(QuizSize)]

\* The bodies of the 2xx responses to a quiz request.
QuizResults ==
    { [candidates |-> << >>],
      OnePart([inlineData |-> "blob"]) }
    \cup { OnePart([text |-> text]) :
               text \in { "", ProseText, ObjectJson, EmptyArrayJson,
                          OneQuestionJson, FiveQuestionsJson } }

QuizParsedAllowEmpty(result) ==
    /\ HasTextField(result)
    /\ TextOf(result) # ""
    /\ IsJson(TextOf(result))
    /\ JSONparse(TextOf(result)).isArray

\* The try block of generateQuizWithGemini reaches its return.
QuizParsed(result) ==
    /\ HasTextField(result)
    /\ TextOf(result) # ""
    /\ IsJson(TextOf(result))
    /\ ~(~JSONparse(TextOf(result)).isArray
         \/ Len(JSONparse(TextOf(result)).items) = 0)

\* handleFileSelect with its notification.
handleFileSelectTraced ==
    /\ uploadedFiles < MaxUploads
    /\ selectedFiles' = 1
    /\ toast' = Toast("Files selected", "1 file(s) ready to process")
    /\ UNCHANGED << profileVars, sessionVars, quizGenVars, uploadedFiles,
                    isLoading, generatedOutput, studyPc, studyCall, quizCall,
                    priorOutput, passSwitches, surveyVars, effects,
                    outputSources >>

handleCreateStudyAidTracedKeepSources ==
    IF CreateButtonEnabled /\ selectedFiles # 0
    THEN /\ startStudyAid
         /\ toast' = Toast("Creating study aid...", "1. Reading file")
         /\ studyCall' = IdleCall
         /\ priorOutput' = generatedOutput
         /\ UNCHANGED << quizCall, effects, outputSources, passSwitches,
                         surveyVars >>
    ELSE UNCHANGED vars

\* handleCreateStudyAid up to its first await, with its notification.
handleCreateStudyAidTraced ==
    IF CreateButtonEnabled /\ selectedFiles # 0
    THEN /\ startStudyAid
         /\ toast' = Toast("Creating study aid...", "1. Reading file")
         /\ studyCall' = IdleCall
         /\ priorOutput' = generatedOutput
         /\ outputSources' = << >>
         /\ UNCHANGED << quizCall, effects, passSwitches, surveyVars >>
    ELSE UNCHANGED vars

studyFailedTracedNoFinally(message) ==
    /\ studyPc' = "idle"
    /\ toast' = Toast("Generation Failed", message)
    /\ UNCHANGED << profileVars, sessionVars, quizGenVars, uploadedFiles,
                    selectedFiles, isLoading, generatedOutput, quizCall,
                    priorOutput, passSwitches, surveyVars, effects,
                    outputSources >>

\* catch + finally of handleCreateStudyAid, with the notification.
studyFailedTraced(message) ==
    /\ isLoading' = FALSE
    /\ studyPc' = "idle"
    /\ toast' = Toast("Generation Failed", message)
    /\ UNCHANGED << profileVars, sessionVars, quizGenVars, uploadedFiles,
                    selectedFiles, generatedOutput, quizCall, priorOutput,
                    passSwitches, surveyVars,
                    effects, outputSources >>

\* await readFileAsText(file) resolves; generateContentWithGemini is called
\* and its fetchApiWithBackoff issues the first request.
ReadFileResolvedTraced ==
    /\ studyPc = "reading"
    /\ studyPc' = "generating"
    /\ toast' = Toast("Creating study aid...",
                      "2. Generating personalized content")
    /\ studyCall' = StartCall
    /\ UNCHANGED << profileVars, sessionVars, quizGenVars, uploadedFiles,
                    selectedFiles, isLoading, generatedOutput, quizCall,
                    priorOutput, passSwitches, surveyVars, effects,
                    outputSources >>

ReadFileRejectedTracedRetry ==
    /\ studyPc = "reading"
    /\ studyPc' = "generating"
    /\ \E error \in ExtractionErrors :
           toast' = Toast("Generation Failed", error)
    /\ studyCall' = StartCall
    /\ UNCHANGED << profileVars, sessionVars, quizGenVars, uploadedFiles,
                    selectedFiles, isLoading, generatedOutput, quizCall,
                    priorOutput, passSwitches, surveyVars, effects,
                    outputSources >>

\* await readFileAsText(file) rejects.
ReadFileRejectedTraced ==
    /\ studyPc = "reading"
    /\ \E error \in ExtractionErrors : studyFailedTraced(error)
    /\ UNCHANGED studyCall

\* An attempt of the study aid request fails: fetch rejects or the status is
\* not 2xx. The third failure reaches the catch of handleCreateStudyAid.
StudyFetchFailed ==
    /\ studyCall.pc = "fetching"
    /\ \E error \in TransportErrors :
           LET call == AttemptFailed(studyCall, error)
           IN  /\ studyCall' = call
               /\ IF call.thrown = NoError
                  THEN UNCHANGED << profileVars, sessionVars, studyVars,
                                    quizGenVars, toast, quizCall,
                                    priorOutput, passSwitches, surveyVars,
                                    effects, outputSources >>
                  ELSE studyFailedTraced(call.thrown)

\* The backoff timer of the study aid request fires.
StudyBackoffElapsed ==
    /\ studyCall.pc = "sleeping"
    /\ studyCall' = IssueFetch(studyCall)
    /\ UNCHANGED << profileVars, sessionVars, studyVars, quizGenVars, toast,
                    quizCall, priorOutput, passSwitches, surveyVars, effects,
                    outputSources >>

\* The rest of generateContentWithGemini and of handleCreateStudyAid once
\* fetchApiWithBackoff has returned the body of a 2xx response.
studyResponse(result) ==
    IF StudyTextPresent(result)
    THEN /\ studyCall' = Received(studyCall, result, NoError)
         /\ generatedOutput' = TextOf(result)
         /\ outputSources' = ExtractSources(result.candidates[1])
         /\ uploadedFiles' = uploadedFiles + 1
         /\ selectedFiles' = 0
         /\ toast' = Toast("Success!",
                           "Your personalized study aid is ready.")
         /\ isLoading' = FALSE
         /\ studyPc' = "idle"
         /\ UNCHANGED << profileVars, sessionVars, quizGenVars, quizCall,
                         priorOutput, passSwitches, surveyVars, effects >>
    ELSE /\ studyCall' = Received(studyCall, result, StudyShapeMessage)
         /\ studyFailedTraced(StudyShapeMessage)

\* A 2xx response to the study aid request arrives.
StudyFetchOk ==
    /\ studyCall.pc = "fetching"
    /\ \E result \in StudyResults : studyResponse(result)

\* "Start Personalized Quiz": fetchNewQuizQuestionSet up to its await, with
\* its notification and the first request of fetchApiWithBackoff.
ClickStartQuizTraced ==
    IF StartQuizButtonEnabled /\ generatedOutput # NoText
    THEN /\ startQuizSet
         /\ toast' = Toast("Generating Quiz Set...",
                           "AI is crafting 5 new questions...")
         /\ quizCall' = StartCall
         /\ UNCHANGED << studyCall, priorOutput, passSwitches, surveyVars,
                         effects, outputSources >>
    ELSE UNCHANGED vars

\* catch + finally of fetchNewQuizQuestionSet, with the notification.
quizFailedTraced(message) ==
    /\ isGeneratingQuiz' = FALSE
    /\ quizContext' = NoText
    /\ toast' = Toast("Quiz Failed",
                      "Could not generate quiz data. " \o message)
    /\ UNCHANGED << profileVars, studyVars, sessionVars, studyCall,
                    priorOutput, passSwitches, surveyVars, effects,
                    outputSources >>

\* An attempt of the quiz request fails.
QuizFetchFailed ==
    /\ quizCall.pc = "fetching"
    /\ \E error \in TransportErrors :
           LET call == AttemptFailed(quizCall, error)
           IN  /\ quizCall' = call
               /\ IF call.thrown = NoError
                  THEN UNCHANGED << profileVars, sessionVars, studyVars,
                                    quizGenVars, toast, studyCall,
                                    priorOutput, passSwitches, surveyVars,
                                    effects, outputSources >>
                  ELSE quizFailedTraced(call.thrown)

\* The backoff timer of the quiz request fires.
QuizBackoffElapsed ==
    /\ quizCall.pc = "sleeping"
    /\ quizCall' = IssueFetch(quizCall)
    /\ UNCHANGED << profileVars, sessionVars, studyVars, quizGenVars, toast,
                    studyCall, priorOutput, passSwitches, surveyVars,
                    effects, outputSources >>

\* A 2xx response to the quiz request arrives: the rest of
\* generateQuizWithGemini and of fetchNewQuizQuestionSet.
QuizFetchOk ==
    /\ quizCall.pc = "fetching"
    /\ \E result \in QuizResults :
           IF QuizParsed(result)
           THEN /\ quizCall' = Received(quizCall, result, NoError)
                /\ quizQuestions' = JSONparse(TextOf(result)).items
                /\ toast' = Toast("Quiz Ready!",
                                  "Start the 5-question personalized quiz.")
                /\ isGeneratingQuiz' = FALSE
                /\ quizContext' = NoText
                /\ UNCHANGED << profileVars, studyVars, currentQuestionIndex,
                                quizStatus, userSelection, incorrectCount,
                                quizScore, studyCall, priorOutput,
                                passSwitches, surveyVars, effects,
                                outputSources >>
           ELSE /\ quizCall' = Received(quizCall, result, QuizShapeMessage)
                /\ quizFailedTraced(QuizShapeMessage)

NextGen ==
    \/ handleFileSelectTraced
    \/ handleCreateStudyAidTraced
    \/ ReadFileResolvedTraced
    \/ ReadFileRejectedTraced
    \/ StudyFetchFailed
    \/ StudyBackoffElapsed
    \/ StudyFetchOk
    \/ ClickStartQuizTraced
    \/ QuizFetchFailed
    \/ QuizBackoffElapsed
    \/ QuizFetchOk

SpecGen == Init /\ [][NextGen]_vars

\* The generation client under the assumptions that every promise settles:
\* the file read resolves or rejects, every fetch gets a response or fails,
\* and every backoff timer fires.
SpecGenFair ==
    /\ SpecGen
    /\ WF_vars(ReadFileResolvedTraced \/ ReadFileRejectedTraced)
    /\ WF_vars(StudyFetchOk \/ StudyFetchFailed)
    /\ WF_vars(StudyBackoffElapsed)
    /\ WF_vars(QuizFetchOk \/ QuizFetchFailed)
    /\ WF_vars(QuizBackoffElapsed)

(* ------------------------------------------------- the sources, traced *)

\* SpecSources follows handleCreateStudyAid from the click to a 2xx response
\* whose candidate may carry grounding attributions.

\* What one grounding attribution of a response may look like.
SourceA == [web |-> [uri |-> "https://a.example", title |-> "A"]]
SourceB == [web |-> [uri |-> "https://b.example", title |-> "B"]]
SourceNoUri == [web |-> [title |-> "A"]]
SourceNoTitle == [web |-> [uri |-> "https://a.example"]]
SourceNoWeb == [retrievedContext |-> "document"]
SourceEmptyUri == [web |-> [uri |-> "", title |-> "B"]]

Attributions ==
    { SourceA, SourceB, SourceNoUri, SourceNoTitle, SourceNoWeb,
      SourceEmptyUri }

AttributionLists ==
    UNION { [1..n -> Attributions] : n \in 0..MaxAttributions }

\* A response body whose candidate has a text and grounding metadata.
Grounded(text, metadata) ==
    [candidates |->
         << [content |-> [parts |-> << [text |-> text] >>],
             groundingMetadata |-> metadata] >>]

\* The bodies of 2xx responses with a text: without grounding metadata, with
\* metadata that has no attributions, and with a list of attributions.
SourcedResults ==
    { OnePart([text |-> text]) : text \in Texts }
    \cup { Grounded(text, [webSearchQueries |-> << "query" >>]) :
               text \in Texts }
    \cup { Grounded(text, [groundingAttributions |-> list]) :
               text \in Texts, list \in AttributionLists }

\* A 2xx response with a text arrives.
StudyFetchOkSourced ==
    /\ studyCall.pc = "fetching"
    /\ \E result \in SourcedResults : studyResponse(result)

NextSources ==
    \/ handleFileSelectTraced
    \/ handleCreateStudyAidTraced
    \/ ReadFileResolvedTraced
    \/ StudyFetchOkSourced

SpecSources == Init /\ [][NextSources]_vars

(* ------------------------------------------------ the quiz engine, traced *)

\* SpecEngine follows the quiz handlers with what they write to the store and
\* what they notify; study aid and quiz requests are taken as in Spec, without
\* their failures.

\* localStorage.setItem("learningStyle", style)
SaveEvent(style) ==
    [kind |-> "setItem", name |-> "learningStyle", arg |-> style]

\* toast({ title, description })
NotifyEvent(title, description) ==
    [kind |-> "toast", name |-> title, arg |-> description]

\* The description of the "Adaptive Change!" notification.
AdaptiveChangeDescription(nextStyle) ==
    "The quiz detected difficulty. Switching your profile to the "
    \o learningStyleInfo[nextStyle].title
    \o " profile for better comprehension. (Confidence -25%)"

\* A question that came with one option more than was asked for.
WideQuestion == [Question(0) EXCEPT !.options = NumOptions + 1]

\* The quiz sets a response may carry here: the five questions asked for,
\* or a single question with five options (generateQuizWithGemini does not
\* look into the questions).
EngineQuizResponses == { QuizSet(QuizSize), << WideQuestion >> }

\* await generateQuizWithGemini(...) settles with a quiz set.
QuizResolvedTraced ==
    /\ quizContext # NoText
    /\ \E newQuizSet \in EngineQuizResponses : quizQuestions' = newQuizSet
    /\ isGeneratingQuiz' = FALSE
    /\ quizContext' = NoText
    /\ toast' = Toast("Quiz Ready!",
                      "Start the 5-question personalized quiz.")
    /\ effects' = << NotifyEvent("Quiz Ready!",
                                 "Start the 5-question personalized quiz.") >>
    /\ passSwitches' = 0
    /\ UNCHANGED << profileVars, studyVars, currentQuestionIndex, quizStatus,
                    userSelection, incorrectCount, quizScore, studyCall,
                    quizCall, priorOutput, surveyVars, outputSources >>

\* handleAnswerSubmit with its notification.
handleAnswerSubmitTraced(selectedIndex) ==
    IF AnswerAccepted
    THEN /\ userSelection' = selectedIndex
         /\ IF selectedIndex = currentQuiz.correctAnswerIndex
            THEN /\ markCorrect
                 /\ toast' = Toast("Correct!",
                                   "Great job! Click Next Question to continue.")
                 /\ effects' =
                        << NotifyEvent("Correct!",
                               "Great job! Click Next Question to continue.") >>
            ELSE /\ markIncorrect
                 /\ toast' = Toast("Incorrect.",
                                   "Review the explanation below.")
                 /\ effects' = << NotifyEvent("Incorrect.",
                                       "Review the explanation below.") >>
         /\ UNCHANGED << storedStyle, currentLearningStyle, studyVars,
                         quizGenVars, quizQuestions, currentQuestionIndex,
                         studyCall, quizCall, priorOutput, passSwitches,
                         surveyVars, outputSources >>
    ELSE UNCHANGED vars

\* A click on one of the buttons of currentQuiz.options.map(...).
ClickOptionTraced ==
    /\ QuestionShown
    /\ \E selectedIndex \in 0..(currentQuiz.options - 1) :
           handleAnswerSubmitTraced(selectedIndex)

handleNextQuestionTracedSilent ==
    IF NextButtonEnabled /\ ~(~HasCurrentQuiz \/ quizQuestions = NoQuiz)
    THEN IF AtLastQuestion
         THEN /\ quizStatus' = "completed"
              /\ effects' = << >>
              /\ UNCHANGED << profileVars, studyVars, quizGenVars,
                              quizQuestions, currentQuestionIndex,
                              userSelection, incorrectCount, quizScore,
                              toast, studyCall, quizCall, priorOutput,
                              passSwitches, surveyVars,
                              outputSources >>
         ELSE /\ IF SwitchDue
                 THEN /\ switchStyle
                      /\ effects' = << SaveEvent(currentLearningStyle') >>
                      /\ passSwitches' = passSwitches + 1
                 ELSE /\ effects' = << >>
                      /\ UNCHANGED << profileVars, incorrectCount,
                                      passSwitches >>
              /\ currentQuestionIndex' = currentQuestionIndex + 1
              /\ quizStatus' = "unanswered"
              /\ userSelection' = NoSelection
              /\ UNCHANGED << studyVars, quizGenVars, quizQuestions,
                              quizScore, toast, studyCall, quizCall,
                              priorOutput, surveyVars, outputSources >>
    ELSE UNCHANGED vars

\* handleNextQuestion with its write to the store and its notification.
handleNextQuestionTraced ==
    IF NextButtonEnabled /\ ~(~HasCurrentQuiz \/ quizQuestions = NoQuiz)
    THEN IF AtLastQuestion
         THEN /\ quizStatus' = "completed"
              /\ effects' = << >>
              /\ UNCHANGED << profileVars, studyVars, quizGenVars,
                              quizQuestions, currentQuestionIndex,
                              userSelection, incorrectCount, quizScore,
                              toast, studyCall, quizCall, priorOutput,
                              passSwitches, surveyVars,
                              outputSources >>
         ELSE /\ IF SwitchDue
                 THEN LET nextStyle ==
                              getNextStyle(currentLearningStyle,
                                           learningStylesArray)
                          description == AdaptiveChangeDescription(nextStyle)
                      IN  /\ switchStyle
                          /\ passSwitches' = passSwitches + 1
                          /\ toast' = Toast("Adaptive Change!", description)
                          /\ effects' =
                                 << SaveEvent(nextStyle),
                                    NotifyEvent("Adaptive Change!",
                                                description) >>
                 ELSE /\ effects' = << >>
                      /\ UNCHANGED << profileVars, incorrectCount, toast,
                                      passSwitches >>
              /\ currentQuestionIndex' = currentQuestionIndex + 1
              /\ quizStatus' = "unanswered"
              /\ userSelection' = NoSelection
              /\ UNCHANGED << studyVars, quizGenVars, quizQuestions,
                              quizScore, studyCall, quizCall, priorOutput,
                              surveyVars,
                              outputSources >>
    ELSE UNCHANGED vars

\* "Retake Quiz": no write to the store, no notification.
handleRetakeQuizTraced ==
    IF CompletedScreenShown
    THEN /\ quizScore' = 0
         /\ currentQuestionIndex' = 0
         /\ quizStatus' = "unanswered"
         /\ incorrectCount' = 0
         /\ userSelection' = NoSelection
         /\ effects' = << >>
         /\ passSwitches' = 0
         /\ UNCHANGED << profileVars, studyVars, quizGenVars, quizQuestions,
                         toast, studyCall, quizCall, priorOutput, surveyVars,
                         outputSources >>
    ELSE UNCHANGED vars

NextEngine ==
    \/ handleFileSelect
    \/ handleCreateStudyAid
    \/ ReadFileResolved
    \/ StudyAidResolved
    \/ ClickStartQuiz
    \/ QuizResolvedTraced
    \/ ClickOptionTraced
    \/ handleNextQuestionTraced
    \/ handleRetakeQuizTraced

SpecEngine == Init /\ [][NextEngine]_vars

(* -------------------------------------------------------------- onboarding *)

\* The survey page is opened.
InitOnboarding == InitialState("/onboarding")

\* const canProceed = answers[currentQuestion] !== undefined
canProceed == answers[currentQuestion] # NoAnswer

\* The keys of counts, in the order the object literal writes them.
countKeys == << "visual", "practical", "conceptual" >>

\* const counts = { visual: 0, practical: 0, conceptual: 0 };
\* Object.values(answers).forEach((answer) => { counts[answer]++ })
countsOf(given) ==
    [style \in { countKeys[i] : i \in 1..Len(countKeys) } |->
        Cardinality({ q \in DOMAIN given : given[q] = style })]

\* Object.entries(counts): [key, value] pairs in key order.
entriesOf(counts) ==
    [i \in 1..Len(countKeys) |->
        [key |-> countKeys[i], value |-> counts[countKeys[i]]]]

keepLargerOrEqual(a, b) == IF a.value >= b.value THEN a ELSE b

\* (a, b) => (a[1] > b[1] ? a : b)
keepLarger(a, b) == IF a.value > b.value THEN a ELSE b

\* Object.entries(counts).reduce(...)[0]: without an initial value the first
\* entry is the accumulator.
surveyStyle(given) ==
    LET entries == entriesOf(countsOf(given))
    IN  keepLarger(keepLarger(entries[1], entries[2]), entries[3]).key

\* A click on an option of the question shown.
handleAnswer(value) ==
    IF route = "/onboarding"
    THEN /\ answers' = [answers EXCEPT ![currentQuestion] = value]
         /\ UNCHANGED << profileVars, sessionVars, studyVars, quizGenVars,
                         traceVars, route, currentQuestion >>
    ELSE UNCHANGED vars

\* A click on "Next" / "Complete", disabled while !canProceed. On the last
\* question the style is written to the store and the Dashboard is mounted,
\* which reads its style from the store.
handleNext ==
    IF route = "/onboarding" /\ canProceed
    THEN IF currentQuestion < questionsLength - 1
         THEN /\ currentQuestion' = currentQuestion + 1
              /\ UNCHANGED << profileVars, sessionVars, studyVars,
                              quizGenVars, traceVars, route, answers >>
         ELSE LET learningStyle == surveyStyle(answers)
              IN  /\ storedStyle' = learningStyle
                  /\ route' = "/dashboard"
                  /\ currentLearningStyle' = learningStyle
                  /\ UNCHANGED << profileConfidence, sessionVars, studyVars,
                                  quizGenVars, traceVars, currentQuestion,
                                  answers >>
    ELSE UNCHANGED vars

\* A click on "Back", disabled on the first question.
handleBack ==
    IF route = "/onboarding" /\ currentQuestion > 0
    THEN /\ currentQuestion' = currentQuestion - 1
         /\ UNCHANGED << profileVars, sessionVars, studyVars, quizGenVars,
                         traceVars, route, answers >>
    ELSE UNCHANGED vars

NextOnboarding ==
    \/ \E value \in Styles : handleAnswer(value)
    \/ handleNext
    \/ handleBack

SpecOnboarding == InitOnboarding /\ [][NextOnboarding]_vars

(* ================================================================ claims *)

\* The cyclic order of the styles as the specification states it.
CycleNext(style) ==
    CASE style = "visual" -> "practical"
      [] style = "practical" -> "conceptual"
      [] style = "conceptual" -> "visual"

QuizLoaded == quizQuestions # NoQuiz

\* A step in which the learner picks the right / a wrong option.
RightOptionStep ==
    /\ HasCurrentQuiz
    /\ \E i \in 0..(NumOptions - 1) :
           i = currentQuiz.correctAnswerIndex /\ handleAnswerSubmit(i)

WrongOptionStep ==
    /\ HasCurrentQuiz
    /\ \E i \in 0..(NumOptions - 1) :
           i # currentQuiz.correctAnswerIndex /\ handleAnswerSubmit(i)

(* ---- C1 ---- *)

ConfidenceStep ==
    /\ profileConfidence' > profileConfidence =>
           /\ profileConfidence' = profileConfidence + 1
           /\ profileConfidence' <= 100
    /\ profileConfidence' < profileConfidence =>
           profileConfidence' =
               (IF profileConfidence >= 25 THEN profileConfidence - 25 ELSE 0)
    /\ (RightOptionStep /\ profileConfidence = 100) =>
           profileConfidence' = 100

\* C1: the confidence starts at 85 and is an integer of [0,100] in every
\* reachable state; it rises only by 1 and never past 100 (a right answer at
\* 100 leaves it at 100), and it falls only by 25, or to 0 when less than 25
\* is left.
C1_ConfidenceBounds ==
    /\ profileConfidence = 85
    /\ [](profileConfidence \in 0..100)
    /\ [][ConfidenceStep]_vars

\* The penalty has been applied with less than 25 left: the confidence sits
\* at the floor after a style switch.
C1_Witness ==
    /\ profileConfidence = 0
    /\ QuizLoaded
    /\ quizStatus = "unanswered"
    /\ currentQuestionIndex > 0

(* ---- C2 ---- *)

\* C2: whenever the answer shown is Incorrect with three or more misses in a
\* row, on whatever question of the batch, the advance that follows moves the
\* style to the next one of the cycle and lowers the confidence by 25,
\* floored at 0.
C2_SwitchAfterThreeMisses ==
    [][(quizStatus = "incorrect" /\ incorrectCount >= 3 /\ NextButtonEnabled
        /\ handleNextQuestion)
       => /\ currentLearningStyle' = CycleNext(currentLearningStyle)
          /\ profileConfidence' =
                 (IF profileConfidence >= 25 THEN profileConfidence - 25
                  ELSE 0)]_vars

(* ---- C3 ---- *)

\* C3: the style changes only in an advance taken while the status is
\* Incorrect and the streak is at least 3; an advance after one or two misses
\* in a row leaves style and confidence as they were.
C3_SwitchOnlyAtThreshold ==
    [][/\ currentLearningStyle' # currentLearningStyle =>
              /\ handleNextQuestion
              /\ quizStatus = "incorrect"
              /\ incorrectCount >= 3
       /\ (handleNextQuestion /\ quizStatus = "incorrect"
           /\ incorrectCount \in {1, 2}) =>
              UNCHANGED << currentLearningStyle, profileConfidence,
                           storedStyle >>]_vars

\* The learner has advanced past a second miss in a row.
C3_Witness ==
    /\ QuizLoaded
    /\ quizStatus = "unanswered"
    /\ incorrectCount = 2
    /\ currentQuestionIndex >= 2

(* ---- C4 ---- *)

\* C4: every step that turns the status into Correct leaves the streak
\* counter at 0.
C4_StreakResetOnCorrect ==
    [][(quizStatus' = "correct" /\ quizStatus # "correct")
       => incorrectCount' = 0]_vars

\* A right answer given directly after two misses (third question, first
\* point of the pass).
C4_Witness ==
    /\ QuizLoaded
    /\ quizStatus = "correct"
    /\ currentQuestionIndex = 2
    /\ quizScore = 1
    /\ incorrectCount = 0

(* ---- C5 ---- *)

\* C5: a click on an option while the current question is already answered
\* changes nothing at all, and the status becomes Correct or Incorrect only
\* from Unanswered, so one answer at most is recorded per question.
C5_SecondSubmitRejected ==
    [][/\ (quizStatus # "unanswered" /\ ClickOption) => UNCHANGED vars
       /\ (quizStatus' \in {"correct", "incorrect"}
           /\ << quizStatus', userSelection', quizScore', incorrectCount' >>
              # << quizStatus, userSelection, quizScore, incorrectCount >>)
          => quizStatus = "unanswered"]_vars

\* A recorded wrong answer on a question that is still the current one.
C5_Witness ==
    /\ QuizLoaded
    /\ quizStatus = "incorrect"
    /\ userSelection # NoSelection
    /\ ~isGeneratingQuiz

(* ---- C6 ---- *)

\* C6: an advance on the last question sets the status to Completed and
\* keeps the position; in the Completed state an advance changes nothing, and
\* the status leaves Completed only by a retake, a new quiz request or a new
\* study-aid request.
C6_CompletedIsTerminal ==
    [][/\ (QuizLoaded /\ currentQuestionIndex = Len(quizQuestions) - 1
           /\ NextButtonEnabled /\ handleNextQuestion)
          => /\ quizStatus' = "completed"
             /\ currentQuestionIndex' = currentQuestionIndex
       /\ (quizStatus = "completed" /\ handleNextQuestion) => UNCHANGED vars
       /\ (quizStatus = "completed" /\ quizStatus' # "completed")
          => \/ handleRetakeQuiz
             \/ fetchNewQuizQuestionSet
             \/ handleCreateStudyAid]_vars

\* The five-question quiz has been finished.
C6_Witness ==
    /\ QuizLoaded
    /\ quizStatus = "completed"
    /\ Len(quizQuestions) = QuizSize
    /\ currentQuestionIndex = QuizSize - 1

(* ---- C7 ---- *)

\* C7: an advance while the status is Unanswered, or while no quiz is
\* loaded, changes nothing; the position grows only from an answered
\* question.
C7_NoSkipUnanswered ==
    [][/\ ((quizStatus = "unanswered" \/ ~QuizLoaded) /\ handleNextQuestion)
          => UNCHANGED vars
       /\ currentQuestionIndex' > currentQuestionIndex
          => quizStatus \in {"correct", "incorrect"}]_vars

\* An unanswered question other than the first: reached by an advance, and
\* not to be left by one.
C7_Witness ==
    /\ QuizLoaded
    /\ quizStatus = "unanswered"
    /\ currentQuestionIndex = 1

(* ---- C8 ---- *)

\* C8: every step that installs a quiz set leaves the session at position
\* 0, score 0, streak 0, status Unanswered and no option selected.
C8_LoadResetsSession ==
    [][(quizQuestions = NoQuiz /\ quizQuestions' # NoQuiz)
       => /\ currentQuestionIndex' = 0
          /\ quizScore' = 0
          /\ incorrectCount' = 0
          /\ quizStatus' = "unanswered"
          /\ userSelection' = NoSelection]_vars

(* ---- C9 ---- *)

\* C9: a retake puts score, position, streak, status and selection back to
\* their initial values and keeps the quiz set, the style, the confidence and
\* the stored style.
C9_RetakeFrame ==
    [][(CompletedScreenShown /\ handleRetakeQuiz)
       => /\ quizScore' = 0
          /\ currentQuestionIndex' = 0
          /\ incorrectCount' = 0
          /\ quizStatus' = "unanswered"
          /\ userSelection' = NoSelection
          /\ UNCHANGED << quizQuestions, currentLearningStyle,
                          profileConfidence, storedStyle >>]_vars

\* A pass restarted by a retake: the first study aid is still held and no
\* second one was ever requested, the confidence shows an earlier pass, and
\* no option is selected.
C9_Witness ==
    /\ QuizLoaded
    /\ Len(quizQuestions) = QuizSize
    /\ quizStatus = "unanswered"
    /\ currentQuestionIndex = 0
    /\ quizScore = 0
    /\ incorrectCount = 0
    /\ userSelection = NoSelection
    /\ uploadedFiles = 1
    /\ selectedFiles = 0
    /\ profileConfidence = 61

(* ---- C10 ---- *)

\* The scenario: state k (0..10) is the state after the first k operations.
ScenarioPosition == << 0, 0, 1, 1, 2, 2, 3, 3, 4, 4, 4 >>
ScenarioStatus ==
    << "unanswered", "correct", "unanswered", "incorrect", "unanswered",
       "incorrect", "unanswered", "incorrect", "unanswered", "correct",
       "completed" >>
ScenarioScore == << 0, 1, 1, 1, 1, 1, 1, 1, 1, 2, 2 >>
ScenarioStreak == << 0, 0, 0, 1, 1, 2, 2, 3, 0, 0, 0 >>
ScenarioConfidence == << 85, 86, 86, 86, 86, 86, 86, 86, 61, 62, 62 >>

ScenarioState(k, startStyle) ==
    [position |-> ScenarioPosition[k + 1],
     status |-> ScenarioStatus[k + 1],
     score |-> ScenarioScore[k + 1],
     streak |-> ScenarioStreak[k + 1],
     confidence |-> ScenarioConfidence[k + 1],
     style |-> IF k >= 8 THEN CycleNext(startStyle) ELSE startStyle]

Observed ==
    [position |-> currentQuestionIndex,
     status |-> quizStatus,
     score |-> quizScore,
     streak |-> incorrectCount,
     confidence |-> profileConfidence,
     style |-> currentLearningStyle]

\* Operation k + 1 of the scenario: Q1 right, advance, Q2 to Q4 wrong with
\* an advance after each, Q5 right, advance.
ScenarioStep(k) ==
    IF k \in {0, 8} THEN RightOptionStep
    ELSE IF k \in {2, 4, 6} THEN WrongOptionStep
    ELSE handleNextQuestion

\* C10: on a fresh five-question quiz with confidence 85, each operation of
\* the scenario takes its state to the next one: score 1 and confidence 86
\* after Q1, streak 3 after the miss on Q4, then the switch to the next style
\* with confidence 61 and streak 0, score 2 and confidence 62 after Q5, and
\* Completed with score 2 at the end.
C10_Scenario ==
    [][(QuizLoaded /\ Len(quizQuestions) = 5
        /\ profileConfidence \in {85, 86, 61, 62})
       => \A k \in 0..9 : \A startStyle \in Styles :
              (Observed = ScenarioState(k, startStyle) /\ ScenarioStep(k))
              => Observed' = ScenarioState(k + 1, startStyle)]_vars

\* The end of the scenario.
C10_Witness ==
    /\ QuizLoaded
    /\ Len(quizQuestions) = 5
    /\ \E startStyle \in Styles : Observed = ScenarioState(10, startStyle)
    /\ storedStyle = "practical"
    /\ uploadedFiles = 1

(* ---- C11 ---- *)

FetchEvent == [ev |-> "fetch", ms |-> 0]
WaitEvent(ms) == [ev |-> "wait", ms |-> ms]

\* What a call does when every attempt fails.
AlwaysFailingRun ==
    << FetchEvent, WaitEvent(2000), FetchEvent, WaitEvent(4000), FetchEvent >>

IsPrefix(a, b) ==
    /\ Len(a) <= Len(b)
    /\ \A i \in 1..Len(a) : a[i] = b[i]

RetryCap(call) ==
    /\ call.result = NoResult =>
           /\ IsPrefix(call.log, AlwaysFailingRun)
           /\ Len(call.errors) < 3 => call.thrown = NoError
    /\ call.thrown = UnavailableMessage =>
           /\ call.log = AlwaysFailingRun
           /\ call.pc = "idle"
           /\ Len(call.errors) = 3
           /\ \A i \in 1..3 : call.errors[i] # UnavailableMessage

\* C11: a call whose attempts all fail issues exactly 3 requests, waits
\* 2000 ms before the second and 4000 ms before the third, does nothing after
\* the third, and then fails with the retry-exhaustion error, which is none of
\* the per-attempt errors.
C11_RetryCap == RetryCap(studyCall) /\ RetryCap(quizCall)

\* A study aid request ran out of attempts and the handler reported it.
C11_Witness ==
    /\ studyCall.thrown = UnavailableMessage
    /\ Len(studyCall.log) = 5
    /\ toast = Toast("Generation Failed", UnavailableMessage)
    /\ ~isLoading

(* ---- C12 ---- *)

\* A step in which handleCreateStudyAid ends in its catch block.
StudyAidFailureStep ==
    \/ ReadFileRejectedTraced
    \/ StudyFetchFailed /\ studyCall'.thrown # NoError
    \/ StudyFetchOk /\ studyCall'.thrown # NoError

\* C12 as stated: when the request fails, the study aid held before the
\* request is still held afterwards, and the failure is reported.
C12_FailureKeepsPrevious ==
    [][StudyAidFailureStep
       => /\ generatedOutput' = priorOutput
          /\ toast'.title = "Generation Failed"]_vars

\* C12, amended: no study aid is held after a failed request, whatever was
\* held before it (accepting the request discards it and nothing restores
\* it), and the failure is reported with the error's message.
C12_FailureLeavesNoArtifact ==
    [][/\ (handleCreateStudyAidTraced /\ isLoading')
           => generatedOutput' = NoText /\ priorOutput' = generatedOutput
       /\ StudyAidFailureStep
           => /\ generatedOutput' = NoText
              /\ UNCHANGED priorOutput
              /\ toast'.title = "Generation Failed"
              /\ toast'.description
                     \in ExtractionErrors
                         \cup {UnavailableMessage, StudyShapeMessage}]_vars

\* A request made while a study aid was held has failed.
C12_Witness ==
    /\ priorOutput # NoText
    /\ generatedOutput = NoText
    /\ ~isLoading
    /\ toast.title = "Generation Failed"

(* ---- C13 ---- *)

\* C13: while a study-aid or quiz generation is in flight, a click on an
\* option, on Next or on either generation button changes nothing, and the
\* two generations are never in flight together.
C13_BusyRejects ==
    /\ [](~(isLoading /\ isGeneratingQuiz))
    /\ [][((isLoading \/ isGeneratingQuiz)
           /\ (\/ ClickOption
               \/ handleNextQuestion
               \/ handleCreateStudyAid
               \/ ClickStartQuiz
               \/ ClickGenerateNewQuiz))
          => UNCHANGED vars]_vars

(* ---- C14 ---- *)

\* C14: the quiz set loaded always has exactly 5 questions, each with
\* exactly 4 options and an explanation for every style.
C14_LoadedBatchWellFormed ==
    QuizLoaded =>
        /\ Len(quizQuestions) = 5
        /\ \A k \in 1..Len(quizQuestions) :
               /\ quizQuestions[k].options = 4
               /\ {"explanation_visual", "explanation_practical",
                   "explanation_conceptual"}
                      \subseteq DOMAIN quizQuestions[k]

(* ---- C15 ---- *)

\* The text of a quiz response is absent or empty, is no JSON, is JSON but no
\* array, or is an empty array.
MalformedQuizResult(result) ==
    \/ ~HasTextField(result)
    \/ TextOf(result) = ""
    \/ TextOf(result) = ProseText
    \/ TextOf(result) = ObjectJson
    \/ TextOf(result) = EmptyArrayJson

\* C15: a 2xx quiz response with such a text makes generateQuizWithGemini
\* fail with its shape error, no quiz set is loaded and the failure is
\* reported; a response that is accepted loads a non-empty quiz set.
C15_MalformedQuizRejected ==
    [][QuizFetchOk
       => IF MalformedQuizResult(quizCall'.result)
          THEN /\ quizCall'.thrown = QuizShapeMessage
               /\ quizQuestions' = NoQuiz
               /\ UNCHANGED sessionVars
               /\ toast'.title = "Quiz Failed"
          ELSE /\ quizCall'.thrown = NoError
               /\ Len(quizQuestions') >= 1]_vars

\* An empty array came back and was refused.
C15_Witness ==
    /\ quizCall.result = OnePart([text |-> EmptyArrayJson])
    /\ quizCall.thrown = QuizShapeMessage
    /\ quizQuestions = NoQuiz
    /\ ~isGeneratingQuiz

(* ---- C16 ---- *)

\* C16: a 2xx study aid response without a text (no candidate, no part, a
\* part without text) or with an empty text makes generateContentWithGemini
\* fail with its shape error and creates no study aid; the study aid held is
\* never the empty string.
C16_MissingTextIsFailure ==
    /\ [](generatedOutput # EmptyString)
    /\ [][(StudyFetchOk
           /\ (\/ ~HasTextField(studyCall'.result)
               \/ TextOf(studyCall'.result) = EmptyString))
          => /\ studyCall'.thrown = StudyShapeMessage
             /\ generatedOutput' = NoText
             /\ UNCHANGED uploadedFiles
             /\ toast' = Toast("Generation Failed", StudyShapeMessage)]_vars

\* A response without a text field came back and was refused.
C16_Witness ==
    /\ studyCall.result # NoResult
    /\ ~HasTextField(studyCall.result)
    /\ studyCall.thrown = StudyShapeMessage
    /\ generatedOutput = NoText
    /\ toast = Toast("Generation Failed", StudyShapeMessage)

(* ---- C17 ---- *)

FetchCount(call) ==
    Cardinality({ i \in 1..Len(call.log) : call.log[i].ev = "fetch" })

NoRetryAfterResponse(call, shapeMessage) ==
    /\ FetchCount(call) <= Len(call.errors) + 1
    /\ \A i \in 1..Len(call.errors) : call.errors[i] \in TransportErrors
    /\ call.result # NoResult =>
           /\ call.pc = "idle"
           /\ FetchCount(call) = Len(call.errors) + 1
           /\ call.log[Len(call.log)].ev = "fetch"
           /\ call.thrown \in {NoError, shapeMessage}
           /\ call.thrown # UnavailableMessage

\* C17: every request after the first follows a failed attempt (fetch
\* rejected or status not 2xx); once a 2xx response has arrived the call is
\* over with no further request, and if its content is refused the error is
\* the shape error, not the retry-exhaustion error.
C17_RetryOnlyTransport ==
    /\ NoRetryAfterResponse(studyCall, StudyShapeMessage)
    /\ NoRetryAfterResponse(quizCall, QuizShapeMessage)

\* Two attempts failed, the third got a 2xx response that was refused.
C17_Witness ==
    /\ quizCall.result # NoResult
    /\ quizCall.thrown = QuizShapeMessage
    /\ Len(quizCall.errors) = 2
    /\ FetchCount(quizCall) = 3
    /\ quizCall.pc = "idle"

(* ---- C18 ---- *)

\* The explanation of the current question for a style, read off the
\* question by the style's name.
ExplanationFor(question, style) ==
    CASE style = "visual" -> question.explanation_visual
      [] style = "practical" -> question.explanation_practical
      [] style = "conceptual" -> question.explanation_conceptual

\* C18: an explanation is shown exactly when the status is Incorrect; its
\* style is the next style of the cycle when the streak is at least 3 and the
\* current style otherwise, and its text is the current question's
\* explanation for that style.
C18_ExplanationToShow ==
    /\ ExplanationDefined <=> quizStatus = "incorrect"
    /\ quizStatus = "incorrect" =>
           LET shownStyle == IF incorrectCount >= 3
                             THEN CycleNext(currentLearningStyle)
                             ELSE currentLearningStyle
           IN  /\ getExplanationText.newStyle = shownStyle
               /\ getExplanationText.explanation =
                      ExplanationFor(quizQuestions[currentQuestionIndex + 1],
                                     shownStyle)

\* A third miss in a row is on display: the explanation previews the next
\* style.
C18_Witness ==
    /\ QuizLoaded
    /\ quizStatus = "incorrect"
    /\ incorrectCount = 3
    /\ getExplanationText.newStyle # currentLearningStyle

(* ---- C19 ---- *)

\* C19: a step that switches the style starts from a streak of at least 3
\* and leaves the streak at 0, and the streak grows only by 1, in a step that
\* records a wrong answer on an unanswered question; so at least 3 wrong
\* answers lie between two switches and the first miss after a switch
\* triggers none.
C19_OneSwitchPerStreak ==
    [][/\ currentLearningStyle' # currentLearningStyle =>
              /\ incorrectCount >= 3
              /\ incorrectCount' = 0
       /\ incorrectCount' > incorrectCount =>
              /\ incorrectCount' = incorrectCount + 1
              /\ quizStatus = "unanswered"
              /\ quizStatus' = "incorrect"]_vars

\* Three misses, the switch, a fourth miss, and an advance that did not
\* switch again: the last question is up with a streak of 1 and no point.
C19_Witness ==
    /\ QuizLoaded
    /\ Len(quizQuestions) = QuizSize
    /\ currentQuestionIndex = 4
    /\ quizStatus = "unanswered"
    /\ quizScore = 0
    /\ incorrectCount = 1
    /\ profileConfidence = 60

(* ---- C20 ---- *)

\* C20: an accepted click on a wrong option sets the status to Incorrect,
\* adds exactly 1 to the streak and leaves score, position, confidence and
\* style as they were.
C20_IncorrectAnswerFrame ==
    [][(AnswerAccepted /\ WrongOptionStep)
       => /\ quizStatus' = "incorrect"
          /\ incorrectCount' = incorrectCount + 1
          /\ UNCHANGED << quizScore, currentQuestionIndex, profileConfidence,
                          currentLearningStyle >>]_vars

\* A second wrong answer in a row has been recorded after a right one.
C20_Witness ==
    /\ QuizLoaded
    /\ quizStatus = "incorrect"
    /\ incorrectCount = 2
    /\ quizScore = 1
    /\ currentQuestionIndex = 2

(* ---- C21 ---- *)

\* C21: an accepted click on the right option sets the status to Correct,
\* adds exactly 1 to the score, sets the confidence to min(100, confidence + 1)
\* and leaves position and style as they were.
C21_CorrectAnswerEffect ==
    [][(AnswerAccepted /\ RightOptionStep)
       => /\ quizStatus' = "correct"
          /\ quizScore' = quizScore + 1
          /\ profileConfidence' =
                 (IF profileConfidence + 1 > 100
                  THEN 100
                  ELSE profileConfidence + 1)
          /\ UNCHANGED << currentQuestionIndex, currentLearningStyle >>]_vars

\* The first two questions have been answered right.
C21_Witness ==
    /\ QuizLoaded
    /\ quizStatus = "correct"
    /\ currentQuestionIndex = 1
    /\ quizScore = 2
    /\ profileConfidence = 87

(* ---- C22 ---- *)

\* C22: the step that changes the style also takes 25 off the confidence
\* (not below 0), resets the streak, moves to the next question and makes it
\* Unanswered; the store holds the new style after it.
C22_SwitchIsAtomic ==
    [][currentLearningStyle' # currentLearningStyle
       => /\ currentLearningStyle' = CycleNext(currentLearningStyle)
          /\ storedStyle' = currentLearningStyle'
          /\ profileConfidence' =
                 (IF profileConfidence >= 25 THEN profileConfidence - 25 ELSE 0)
          /\ incorrectCount' = 0
          /\ currentQuestionIndex' = currentQuestionIndex + 1
          /\ quizStatus' = "unanswered"]_vars

\* The switch has just happened on the advance to the fourth question.
C22_Witness ==
    /\ QuizLoaded
    /\ currentQuestionIndex = 3
    /\ quizStatus = "unanswered"
    /\ incorrectCount = 0
    /\ quizScore = 0
    /\ profileConfidence = 60
    /\ storedStyle = currentLearningStyle

(* ---- C23 ---- *)

\* A step of one of the quiz handlers, or the step that loads a quiz set.
EngineStep ==
    \/ ClickOptionTraced
    \/ handleNextQuestionTraced
    \/ handleRetakeQuizTraced
    \/ QuizResolvedTraced

\* The title of a style as the notification names it.
TitleOf(style) ==
    CASE style = "visual" -> "Visual Learner"
      [] style = "practical" -> "Practical Learner"
      [] style = "conceptual" -> "Conceptual Learner"

\* The positions of the writes to the store and of the style-switched
\* notifications among the effects of a handler.
SavesIn(events) == { i \in 1..Len(events) : events[i].kind = "setItem" }

SwitchNoticesIn(events) ==
    { i \in 1..Len(events) :
          events[i].kind = "toast" /\ events[i].name = "Adaptive Change!" }

\* C23: a quiz step that changes the style writes the new style to the
\* store exactly once and notifies the switch exactly once, naming the new
\* style; a quiz step that does not change the style (an answer, an ordinary
\* advance, the completion, a retake, the load of a quiz set) does neither.
C23_SaveAndNoticeOnlyOnSwitch ==
    [][EngineStep
       => IF currentLearningStyle' # currentLearningStyle
          THEN /\ Cardinality(SavesIn(effects')) = 1
               /\ \A i \in SavesIn(effects') :
                      /\ effects'[i].name = "learningStyle"
                      /\ effects'[i].arg = CycleNext(currentLearningStyle)
               /\ storedStyle' = CycleNext(currentLearningStyle)
               /\ Cardinality(SwitchNoticesIn(effects')) = 1
               /\ \A i \in SwitchNoticesIn(effects') :
                      effects'[i].arg =
                          "The quiz detected difficulty. Switching your "
                          \o "profile to the "
                          \o TitleOf(CycleNext(currentLearningStyle))
                          \o " profile for better comprehension. "
                          \o "(Confidence -25%)"
          ELSE /\ SavesIn(effects') = {}
               /\ SwitchNoticesIn(effects') = {}
               /\ UNCHANGED storedStyle]_vars

\* The switch has just been saved and notified.
C23_Witness ==
    /\ QuizLoaded
    /\ Len(effects) = 2
    /\ effects[1].kind = "setItem"
    /\ effects[1].arg = currentLearningStyle
    /\ toast.title = "Adaptive Change!"
    /\ quizStatus = "unanswered"

(* ---- C24 ---- *)

\* C24: a call of handleAnswerSubmit with an index outside 0..3 leaves
\* status, selection, score, streak and confidence as they were.
C24_OutOfRangeRejected ==
    [][\A index \in {-1, 4, 5} :
           handleAnswerSubmitTraced(index)
               => UNCHANGED << quizStatus, userSelection, quizScore,
                               incorrectCount, profileConfidence >>]_vars

(* ---- C25 ---- *)

\* C25 as stated: from the start of a request to its success the study aid
\* held is the one held before the request.
C25_NoEmptyHolder == isLoading => generatedOutput = priorOutput

\* C25, amended: accepting a request empties the holder (text and sources)
\* in that step, the holder stays empty while the request runs, and the step
\* that ends the request with success installs the text and the sources of
\* the response together.
C25_ClearedThenInstalled ==
    /\ [](isLoading => generatedOutput = NoText /\ outputSources = << >>)
    /\ [][(generatedOutput' # generatedOutput
           \/ outputSources' # outputSources)
          => \/ /\ ~isLoading /\ isLoading'
                /\ generatedOutput' = NoText
                /\ outputSources' = << >>
             \/ /\ isLoading /\ ~isLoading'
                /\ generatedOutput' = TextOf(studyCall'.result)
                /\ outputSources' =
                       ExtractSources(studyCall'.result.candidates[1])]_vars

\* A second study aid with sources has replaced the first.
C25_Witness ==
    /\ ~isLoading
    /\ priorOutput # NoText
    /\ generatedOutput # NoText
    /\ outputSources # << >>
    /\ uploadedFiles = 2

(* ---- C26 ---- *)

\* The attributions the response carried.
AttributionsOf(result) ==
    LET candidate == result.candidates[1]
    IN  IF /\ "groundingMetadata" \in DOMAIN candidate
           /\ "groundingAttributions" \in DOMAIN candidate.groundingMetadata
        THEN candidate.groundingMetadata.groundingAttributions
        ELSE << >>

HasBoth(attribution) ==
    /\ "web" \in DOMAIN attribution
    /\ {"uri", "title"} \subseteq DOMAIN attribution.web
    /\ attribution.web.uri # ""
    /\ attribution.web.title # ""

RECURSIVE CompleteOnly(_)
CompleteOnly(attributions) ==
    IF attributions = << >>
    THEN << >>
    ELSE LET first == Head(attributions)
             rest == CompleteOnly(Tail(attributions))
         IN  IF HasBoth(first)
             THEN << [uri |-> first.web.uri, title |-> first.web.title] >>
                  \o rest
             ELSE rest

\* C26: the sources of the study aid are the attributions of the response
\* that have a uri and a title, in the order of the response; no source has
\* an empty or undefined uri or title.
C26_SourcesFiltered ==
    (studyCall.result # NoResult /\ studyCall.thrown = NoError)
        => /\ outputSources = CompleteOnly(AttributionsOf(studyCall.result))
           /\ \A i \in 1..Len(outputSources) :
                  /\ outputSources[i].uri \notin {"", Undefined}
                  /\ outputSources[i].title \notin {"", Undefined}

\* An attribution without uri was dropped from between two complete ones.
C26_Witness ==
    /\ studyCall.result # NoResult
    /\ studyCall.thrown = NoError
    /\ AttributionsOf(studyCall.result) = << SourceB, SourceNoUri, SourceA >>
    /\ Len(outputSources) = 2
    /\ outputSources[1].title = "B"

(* ---- C27 ---- *)

\* C27: in every step the confidence stays, rises by 1 (not past 100) or
\* falls by 25 (not below 0); a step that records a right answer does not
\* change the style, and a step that changes the style does not record an
\* answer.
C27_OneAdjustmentPerStep ==
    [][/\ \/ profileConfidence' = profileConfidence
          \/ profileConfidence' = Min(100, profileConfidence + 1)
          \/ profileConfidence' = Max(0, profileConfidence - 25)
       /\ profileConfidence' > profileConfidence
              => UNCHANGED currentLearningStyle
       /\ currentLearningStyle' # currentLearningStyle
              => /\ profileConfidence' <= profileConfidence
                 /\ UNCHANGED quizScore]_vars

\* A bump and a penalty have both been applied, in different steps.
C27_Witness ==
    /\ QuizLoaded
    /\ quizStatus = "correct"
    /\ profileConfidence = 61
    /\ currentQuestionIndex = 4

(* ---- C28 ---- *)

\* How far a call has come: the requests and timers behind it, the failed
\* attempts, and whether it is over.
Progress(call) ==
    Len(call.log) + Len(call.errors) + (IF call.pc = "idle" THEN 1 ELSE 0)

\* The 1-based positions of the waits in the log of a call.
WaitsOf(call) == { i \in 1..Len(call.log) : call.log[i].ev = "wait" }

BoundedCall(call) ==
    /\ FetchCount(call) <= 3
    /\ \A i \in WaitsOf(call) :
           \* the wait follows the k-th request, which failed, and precedes
           \* the next one; it takes 2^k seconds
           LET k == Cardinality({ j \in 1..i : call.log[j].ev = "fetch" })
           IN  /\ k < 3
               /\ k <= Len(call.errors)
               /\ call.log[i - 1].ev = "fetch"
               /\ call.log[i].ms = (2 ^ k) * 1000
    /\ Cardinality(WaitsOf(call)) <= Len(call.errors)
    /\ (call.pc = "idle" /\ call.log # << >>)
           => /\ call.result # NoResult \/ call.thrown # NoError
              /\ call.log[Len(call.log)].ev = "fetch"
    /\ Progress(call) <= 9

CallAdvances(call, next) ==
    (call.pc # "idle" /\ next # call) => Progress(next) > Progress(call)

\* C28: whatever the attempts end with, a call issues at most 3 requests,
\* ends with the first 2xx response or with an error, waits 2^k seconds only
\* between the failed k-th request and the next one, and ends: a running
\* call can always take a step, every step brings it forward, and it cannot
\* go further than 3 requests, 2 waits and 3 failures.
C28_BoundedRetry ==
    /\ [](BoundedCall(studyCall) /\ BoundedCall(quizCall))
    /\ [](studyCall.pc = "fetching"
              => ENABLED StudyFetchOk /\ ENABLED StudyFetchFailed)
    /\ [](studyCall.pc = "sleeping" => ENABLED StudyBackoffElapsed)
    /\ [](quizCall.pc = "fetching"
              => ENABLED QuizFetchOk /\ ENABLED QuizFetchFailed)
    /\ [](quizCall.pc = "sleeping" => ENABLED QuizBackoffElapsed)
    /\ [][/\ CallAdvances(studyCall, studyCall')
          /\ CallAdvances(quizCall, quizCall')]_vars

\* The second request of a study aid call got the response.
C28_Witness ==
    /\ studyCall.result # NoResult
    /\ studyCall.thrown = NoError
    /\ Len(studyCall.errors) = 1
    /\ Len(studyCall.log) = 3
    /\ generatedOutput # NoText

(* ---- C29 ---- *)

C30_BatchFromHeldArtifact ==
    /\ [](QuizLoaded => generatedOutput # NoText)
    /\ [][QuizResolved => quizContext = generatedOutput]_vars

(* ---- C31 ---- *)

\* C31: the streak is never above 3, and never above 2 on an unanswered
\* question; it grows only by 1, when a wrong answer is recorded, and
\* otherwise changes only by a reset to 0, in a step that records a right
\* answer, switches the style, retakes the quiz or requests a quiz set or a
\* study aid; a quiz set is loaded with the streak at 0.
C31_StreakBounded ==
    /\ [](incorrectCount <= 3)
    /\ [](quizStatus = "unanswered" => incorrectCount <= 2)
    /\ [][/\ WrongOptionStep /\ AnswerAccepted
              => incorrectCount' = incorrectCount + 1
          /\ incorrectCount' # incorrectCount
              => \/ /\ WrongOptionStep
                    /\ incorrectCount' = incorrectCount + 1
                 \/ /\ incorrectCount' = 0
                    /\ \/ RightOptionStep
                       \/ currentLearningStyle' # currentLearningStyle
                       \/ handleRetakeQuiz
                       \/ (~isGeneratingQuiz /\ isGeneratingQuiz')
                       \/ (~isLoading /\ isLoading')
          /\ (\/ RightOptionStep /\ AnswerAccepted
              \/ currentLearningStyle' # currentLearningStyle
              \/ CompletedScreenShown /\ handleRetakeQuiz
              \/ ~QuizLoaded /\ QuizLoaded')
              => incorrectCount' = 0]_vars

\* A right answer, then three misses in a row.
C31_Witness ==
    /\ QuizLoaded
    /\ quizStatus = "incorrect"
    /\ incorrectCount = 3
    /\ currentQuestionIndex = 3
    /\ quizScore = 1

(* ---- C32 ---- *)

\* The number of questions answered in the current pass.
AnsweredInPass ==
    IF quizStatus = "unanswered"
    THEN currentQuestionIndex
    ELSE currentQuestionIndex + 1

\* C32: while a quiz set is loaded, 0 <= score <= questions answered in the
\* pass <= number of questions; the score grows only by 1, when a right
\* answer is recorded, and otherwise changes only by a reset to 0.
C32_ScoreBounded ==
    /\ [](quizScore >= 0)
    /\ [](QuizLoaded => /\ quizScore <= AnsweredInPass
                        /\ AnsweredInPass <= Len(quizQuestions))
    /\ [][/\ quizScore' # quizScore
             => \/ /\ RightOptionStep
                   /\ quizScore' = quizScore + 1
                \/ quizScore' = 0
          /\ RightOptionStep /\ AnswerAccepted
              => quizScore' = quizScore + 1
          /\ (\/ CompletedScreenShown /\ handleRetakeQuiz
              \/ ~QuizLoaded /\ QuizLoaded')
              => quizScore' = 0]_vars

\* Every question of the pass was answered right.
C32_Witness ==
    /\ QuizLoaded
    /\ quizStatus = "completed"
    /\ quizScore = 5
    /\ currentQuestionIndex = 4

(* ---- C34 ---- *)

\* C34: while a quiz set is loaded the position is one of its questions;
\* the position changes only by +1, in an advance from a question that is not
\* the last one, or by a reset to 0; the status is Completed only on the last
\* question.
C34_PositionInRange ==
    /\ [](QuizLoaded =>
              /\ currentQuestionIndex >= 0
              /\ currentQuestionIndex <= Len(quizQuestions) - 1)
    /\ []((QuizLoaded /\ quizStatus = "completed") =>
              currentQuestionIndex = Len(quizQuestions) - 1)
    /\ [][currentQuestionIndex' # currentQuestionIndex
          => \/ /\ currentQuestionIndex' = currentQuestionIndex + 1
                /\ handleNextQuestion
                /\ currentQuestionIndex < Len(quizQuestions) - 1
             \/ /\ currentQuestionIndex' = 0
                /\ \/ handleRetakeQuiz
                   \/ (~isGeneratingQuiz /\ isGeneratingQuiz')
                   \/ (~isLoading /\ isLoading')]_vars

\* The last question is up after four right answers.
C34_Witness ==
    /\ QuizLoaded
    /\ quizStatus = "unanswered"
    /\ currentQuestionIndex = 4
    /\ quizScore = 4

(* ---- C35 ---- *)

\* C35: status and selection agree: no selection on an unanswered question,
\* the right option on Correct, another option on Incorrect; the status is
\* never 'waiting'.
C35_StatusSelectionAgree ==
    /\ quizStatus # "waiting"
    /\ quizStatus = "unanswered" => userSelection = NoSelection
    /\ (QuizLoaded /\ quizStatus = "correct") =>
           userSelection = currentQuiz.correctAnswerIndex
    /\ (QuizLoaded /\ quizStatus = "incorrect") =>
           /\ userSelection # NoSelection
           /\ userSelection # currentQuiz.correctAnswerIndex

(* ---- C36 ---- *)

\* C36: when the explanation of a wrong answer is given in the next style
\* because the streak is at least 3, and the question is not the last one,
\* the click on Next makes that style the current one.
C36_PreviewIsNextStyle ==
    [][(/\ ExplanationDefined
        /\ incorrectCount >= 3
        /\ currentQuestionIndex < Len(quizQuestions) - 1
        /\ NextButtonEnabled
        /\ handleNextQuestion)
       => /\ getExplanationText.newStyle # currentLearningStyle
          /\ currentLearningStyle' = getExplanationText.newStyle]_vars

\* The previewed style, visual after conceptual, has become the current one.
C36_Witness ==
    /\ QuizLoaded
    /\ quizStatus = "unanswered"
    /\ currentQuestionIndex = 3
    /\ incorrectCount = 0
    /\ currentLearningStyle = "visual"
    /\ storedStyle = "visual"
    /\ profileConfidence = 60

(* ---- C38 ---- *)

\* C38: a style in the store is the current style; the current style starts
\* as the stored one, or visual if there is none, and every change of the
\* current style is written to the store in the same step.
C38_StoreMatchesStyle ==
    /\ [](storedStyle # NoStoredStyle => storedStyle = currentLearningStyle)
    /\ [](storedStyle = NoStoredStyle => currentLearningStyle = "visual")
    /\ [][currentLearningStyle' # currentLearningStyle
          => storedStyle' = currentLearningStyle']_vars

\* Two switches have been written to the store.
C38_Witness ==
    /\ profileConfidence = 35
    /\ storedStyle = currentLearningStyle
    /\ quizStatus = "unanswered"
    /\ QuizLoaded

(* ---- C39 ---- *)

\* C39: when the extraction fails, the failure is reported with the
\* extractor's message, the extraction is not run again, no generation
\* request has been or is issued for that click, and no study aid is held;
\* no request is in flight while the file is being read.
C39_ExtractionFailureStops ==
    /\ [](studyPc = "reading" => studyCall = IdleCall)
    /\ []((toast.title = "Generation Failed"
           /\ toast.description \in ExtractionErrors)
          => /\ FetchCount(studyCall) = 0
             /\ studyPc = "idle"
             /\ generatedOutput = NoText)
    /\ [][ReadFileRejectedTraced
          => /\ toast'.title = "Generation Failed"
             /\ toast'.description \in ExtractionErrors
             /\ studyPc' = "idle"
             /\ ~isLoading'
             /\ studyCall' = IdleCall
             /\ generatedOutput' = NoText
             /\ uploadedFiles' = uploadedFiles]_vars

\* The parser of the selected file is missing: the failure is on screen and
\* nothing was requested.
C39_Witness ==
    /\ toast = Toast("Generation Failed", "PDF parser (pdf.js) is not loaded.")
    /\ studyCall = IdleCall
    /\ generatedOutput = NoText
    /\ ~isLoading
    /\ uploadedFiles = 1

(* ---- C37 ---- *)

\* C37: if every file read, every fetch and every backoff timer settles, a
\* study aid request that was accepted eventually clears isLoading and a
\* quiz request that was accepted eventually clears isGeneratingQuiz.
C37_BusyEventuallyCleared ==
    /\ isLoading ~> ~isLoading
    /\ isGeneratingQuiz ~> ~isGeneratingQuiz

\* The quiz request ran out of retries after a study aid was made, and both
\* flags are clear.
C37_Witness ==
    /\ ~isLoading
    /\ ~isGeneratingQuiz
    /\ studyCall.result # NoResult
    /\ studyCall.thrown = NoError
    /\ quizCall.thrown = UnavailableMessage
    /\ toast.title = "Quiz Failed"

(* ---- C33 ---- *)

\* C33: in a pass through a set of five questions, from its load or retake
\* on, the style is switched at most once; the confidence goes down and the
\* style changes only in such a switch, by at most 25 and by one step of the
\* cycle.
C33_OneSwitchPerPass ==
    /\ []((QuizLoaded /\ Len(quizQuestions) = QuizSize) => passSwitches <= 1)
    /\ [][/\ (\/ profileConfidence' < profileConfidence
              \/ currentLearningStyle' # currentLearningStyle)
             => /\ passSwitches' = passSwitches + 1
                /\ profileConfidence - profileConfidence' <= SwitchPenalty
                /\ currentLearningStyle' = CycleNext(currentLearningStyle)
          /\ passSwitches' # passSwitches
             => \/ /\ passSwitches' = passSwitches + 1
                   /\ handleNextQuestionTraced
                   /\ currentLearningStyle' # currentLearningStyle
                \/ /\ passSwitches' = 0
                   /\ QuizResolvedTraced \/ handleRetakeQuizTraced
          /\ (\/ ~QuizLoaded /\ QuizLoaded'
              \/ CompletedScreenShown /\ handleRetakeQuizTraced)
             => passSwitches' = 0]_vars

\* Every answer of the pass was wrong: one switch after the third, none
\* after the fifth.
C33_Witness ==
    /\ QuizLoaded
    /\ Len(quizQuestions) = QuizSize
    /\ quizStatus = "completed"
    /\ passSwitches = 1
    /\ incorrectCount = 2
    /\ quizScore = 0

(* ---- C40 ---- *)

\* The place of a style in the order visual, practical, conceptual.
OrderOf(style) ==
    CASE style = "visual" -> 1
      [] style = "practical" -> 2
      [] style = "conceptual" -> 3

\* C40: the store is written only by Next on the last survey question, which
\* also leaves the survey; the style written is one of the three, no style
\* has more recorded answers, and a style with as many answers does not come
\* later in the order visual, practical, conceptual; the survey position is
\* always one of the five questions.
C40_SurveyWritesMajority ==
    /\ [](currentQuestion \in 0..(questionsLength - 1))
    /\ [][(storedStyle' # storedStyle \/ route' # route)
          => /\ route = "/onboarding"
             /\ currentQuestion = questionsLength - 1
             /\ handleNext
             /\ route' = "/dashboard"
             /\ storedStyle' \in Styles
             /\ \A style \in Styles :
                    LET counts == countsOf(answers)
                    IN  /\ counts[style] <= counts[storedStyle']
                        /\ counts[style] = counts[storedStyle']
                               => OrderOf(style) <= OrderOf(storedStyle')]_vars

\* Two answers each for visual and conceptual: conceptual was written.
C40_Witness ==
    /\ route = "/dashboard"
    /\ storedStyle = "conceptual"
    /\ countsOf(answers)["visual"] = 2
    /\ countsOf(answers)["conceptual"] = 2
    /\ countsOf(answers)["practical"] = 1
====
